---- MODULE Spec2Model ----
(***************************************************************************)
(* Concurrency examples of the DesignPatterns repository.                  *)
(*                                                                         *)
(* Part 1: src/Concurrency/ThreadPool/main.cpp.  One owner thread          *)
(* constructs a ThreadPool, calls enqueueTask some number of times and     *)
(* then destroys the pool.  The worker lambda, enqueueTask and the         *)
(* destructor are modelled statement by statement: the mutex is acquired   *)
(* and released where the code's lock scopes begin and end, and            *)
(* condition_variable::wait releases the mutex and blocks atomically when  *)
(* its predicate is false, may wake spuriously, and re-evaluates the       *)
(* predicate with the mutex held.                                          *)
(*                                                                         *)
(* A task body is one of three kinds: it returns ("plain"), it throws an   *)
(* exception ("throws"), or it calls enqueueTask on its own pool with a    *)
(* plain child task and then returns ("spawns").                           *)
(*                                                                         *)
(* Part 2: src/Concurrency/GuardedSuspension/main.cpp.  Producer threads   *)
(* call GuardedQueue::addData and consumer threads call getData on one     *)
(* shared queue.                                                           *)
(*                                                                         *)
(* Part 3: src/Concurrency/MonitorObject/main.cpp.  main constructs a      *)
(* BankAccount and starts threads that each call withdraw or deposit once. *)
(* The amounts are doubles in the code; the model uses main's amounts,     *)
(* whole numbers on which double arithmetic is exact.                      *)
(*                                                                         *)
(* Part 4: src/Concurrency/ProducerConsumer/main.cpp.  main starts one     *)
(* producer thread, which calls produce(i) for i = 0, 1, ..., and one      *)
(* consumer thread, which calls consume(); main joins the producer, calls  *)
(* stop() and joins the consumer.                                          *)
(*                                                                         *)
(* Part 5: src/Concurrency/ActiveObject/main.cpp.  The Logger's            *)
(* constructor starts the worker thread running processLogs; main calls    *)
(* logMessage some number of times, may call waitForCompletion, and then   *)
(* destroys the Logger.                                                    *)
(*                                                                         *)
(* Each part has its own variables and its own specification; the          *)
(* variables of the other parts keep their initial values.                 *)
(***************************************************************************)
EXTENDS Integers, Sequences, FiniteSets, TLC

\* Largest threadCount passed to the constructor.
MaxThreads == 2

\* Number of task instances that may exist in one run.
MaxTasks == 3

\* How many times the shutdown sequence is run in SpecTwice.
MaxShutdowns == 2

\* GuardedQueue: number of values added in one run, and of producer and
\* consumer threads.
MaxItems == 3
NumProducers == 2
NumConsumers == 2

\* BankAccount: the number of threads main may start, each with one call of
\* withdraw or of deposit.
NumBankThreads == 3

\* BankAccount: main's initial balance and the amounts it withdraws and
\* deposits.
InitialBalance == 50
WithdrawAmount == 100
DepositAmount == 100

\* ProducerConsumer: how many values producerTask produces.
MaxProduced == 3

\* Logger: how many messages main logs at most.
MaxLogs == 3

\* The thread that owns the pool (main); worker threads are 1..threadCount.
Owner == 0

Workers == 1..MaxThreads
Threads == {Owner} \cup Workers
TaskIds == 1..MaxTasks
Kinds == {"plain", "throws", "spawns"}

VARIABLES
    threadCount,    \* constructor argument
    i,              \* constructor loop index
    m_workers,      \* std::vector<std::thread>: the worker ids, in order
    joinable,       \* std::thread::joinable() of each worker handle
    m_tasks,        \* std::queue<std::function<void()>>
    m_mutex,        \* set of threads holding m_mutex
    m_condition,    \* set of workers blocked in m_condition.wait
    m_running,      \* std::atomic<bool>
    pc,             \* position of every thread
    task,           \* the worker lambda's local variable task (0: empty)
    arg,            \* argument of the enqueueTask call a thread is in (0: none)
    j,              \* destructor loop position in m_workers
    kind,           \* body of each task instance
    nextId,         \* next unused task instance
    terminated,     \* std::terminate was called: the process is gone
    \* history variables, read by the properties only
    executed,       \* how many times each task body ran to completion
    pushSeq,        \* tasks in the order they were pushed
    deqSeq,         \* tasks in the order they were popped
    submitted,      \* tasks passed to enqueueTask so far
    submittedBefore,\* submitted, at the moment the destructor started
    drainSnapshot,  \* tasks in the queue when the destructor cleared m_running
    lateCalls,      \* tasks passed to enqueueTask while m_running was false
    joinCalls,      \* how many times join() was called on each worker
    shutdownRuns,   \* how many times the shutdown sequence was started
    afterFirst      \* pool state when the first shutdown sequence returned

poolVars == <<threadCount, i, m_workers, joinable, m_tasks, m_mutex, m_condition,
          m_running, pc, task, arg, j, kind, nextId, terminated, executed,
          pushSeq, deqSeq, submitted, submittedBefore, drainSnapshot,
          lateCalls, joinCalls, shutdownRuns, afterFirst>>

\* GuardedQueue and its threads.
VARIABLES
    m_dataQueue,    \* std::queue<int>
    gq_mutex,       \* set of threads holding GuardedQueue::m_mutex
    m_cv,           \* set of consumers blocked in m_cv.wait
    gqpc,           \* position of every producer and consumer
    gqNext,         \* the next value a producer adds
    gqArg,          \* addData's parameter per producer (0: none)
    \* history variables, read by the properties only
    gqAdded,        \* values in the order they were pushed
    gqReturned      \* getData's local value at each return, in order

gqVars == <<m_dataQueue, gq_mutex, m_cv, gqpc, gqNext, gqArg, gqAdded,
            gqReturned>>

\* BankAccount and its threads.
VARIABLES
    m_balance,      \* double m_balance
    bank_mutex,     \* set of threads holding BankAccount::m_mutex
    bank_cv,        \* set of withdrawers blocked in BankAccount::m_cv.wait
    bankpc,         \* position of every depositing and withdrawing thread
    amount,         \* the argument of each thread's deposit or withdraw call
    bankMain        \* position of main

bankVars == <<m_balance, bank_mutex, bank_cv, bankpc, amount, bankMain>>

\* ProducerConsumer and its threads.
VARIABLES
    m_queue,        \* std::queue<int>
    pq_mutex,       \* set of threads holding ProducerConsumer::m_mutex
    m_condVar,      \* set of threads blocked in m_condVar.wait
    m_done,         \* bool m_done
    staleDone,      \* the consumer's next unlocked read of m_done races with
                    \* stop()'s write
    prodpc,         \* position of the producer thread
    prodI,          \* producerTask's loop variable i
    conspc,         \* position of the consumer thread
    pqMain,         \* position of main
    \* history variable, read by the properties only
    pqConsumed      \* the values consumed, in order

pqVars == <<m_queue, pq_mutex, m_condVar, m_done, staleDone, prodpc, prodI,
            conspc, pqMain, pqConsumed>>

\* Logger, its worker thread and main.
VARIABLES
    m_logQueue,     \* std::queue<std::string>: the messages, by number
    log_mutex,      \* set of threads holding Logger::m_mutex
    log_cv,         \* set of threads blocked in Logger::m_cv.wait
    logger_running, \* Logger::m_running
    lwpc,           \* position of the worker thread
    logMain,        \* position of main
    logCount,       \* how many logMessage calls main has made
    \* history variables, read by the properties only
    logWritten,     \* the messages written, in order
    pendingAtDtor   \* length of the queue when the destructor started

logVars == <<m_logQueue, log_mutex, log_cv, logger_running, lwpc, logMain,
             logCount, logWritten, pendingAtDtor>>

\* The variables of the other examples, which the ThreadPool leaves alone.
otherVars == <<gqVars, bankVars, pqVars, logVars>>

\* The variables the GuardedQueue leaves alone.
outsideGQ == <<poolVars, bankVars, pqVars, logVars>>

\* The variables the BankAccount leaves alone.
outsideBank == <<poolVars, gqVars, pqVars, logVars>>

\* The variables the ProducerConsumer leaves alone.
outsidePQ == <<poolVars, gqVars, bankVars, logVars>>

\* The variables the Logger leaves alone.
outsideLogger == <<poolVars, gqVars, bankVars, pqVars>>

vars == <<poolVars, otherVars>>

GQProducers == 1..NumProducers
GQConsumers == (NumProducers + 1)..(NumProducers + NumConsumers)
GQThreads == GQProducers \cup GQConsumers

\* A GuardedQueue as constructed, with its threads not yet in a call.
GQInit ==
    /\ m_dataQueue = <<>>
    /\ gq_mutex = {}
    /\ m_cv = {}
    /\ gqpc = [t \in GQThreads |-> "idle"]
    /\ gqNext = 1
    /\ gqArg = [p \in GQProducers |-> 0]
    /\ gqAdded = <<>>
    /\ gqReturned = <<>>

\* main's vector of threads.
BankThreads == 1..NumBankThreads

\* A BankAccount as constructed by main; no thread is started yet.
BankInit ==
    /\ m_balance = InitialBalance
    /\ bank_mutex = {}
    /\ bank_cv = {}
    /\ bankpc = [t \in BankThreads |-> "notcreated"]
    /\ amount = [t \in BankThreads |-> 0]
    /\ bankMain = "spawning"

\* The two threads of the ProducerConsumer example.
PQProducer == 1
PQConsumer == 2

\* A ProducerConsumer as constructed, its two threads just started.
PQInit ==
    /\ m_queue = <<>>
    /\ pq_mutex = {}
    /\ m_condVar = {}
    /\ m_done = FALSE
    /\ staleDone = FALSE
    /\ prodpc = "p_loop"
    /\ prodI = 0
    /\ conspc = "c_test"
    /\ pqMain = "join_producer"
    /\ pqConsumed = <<>>

\* The two threads of the Logger example.
LogMainThread == 0
LogWorker == 1

\* A Logger as constructed: the worker thread is started, m_running is true.
LoggerInit ==
    /\ m_logQueue = <<>>
    /\ log_mutex = {}
    /\ log_cv = {}
    /\ logger_running = TRUE
    /\ lwpc = "lw_lock"
    /\ logMain = "client"
    /\ logCount = 0
    /\ logWritten = <<>>
    /\ pendingAtDtor = 0

histVars == <<executed, pushSeq, deqSeq, submitted, submittedBefore,
              drainSnapshot, lateCalls, joinCalls, shutdownRuns,
              afterFirst>>

Range(s) == {s[k] : k \in 1..Len(s)}

\* The state of the pool object and of its threads.
PoolState == <<m_workers, joinable, m_tasks, m_mutex, m_condition, m_running,
               [w \in Workers |-> pc[w]], executed>>

\* A constructor that leaves the flag false.
RunningAtConstruction_False == FALSE

\* The member initialiser m_running(true).
RunningAtConstruction == TRUE

Init ==
    /\ threadCount \in 0..MaxThreads
    /\ i = 0
    /\ m_workers = <<>>
    /\ joinable = [w \in Workers |-> FALSE]
    /\ m_tasks = <<>>
    /\ m_mutex = {}
    /\ m_condition = {}
    /\ m_running = RunningAtConstruction
    /\ pc = [t \in Threads |-> IF t = Owner THEN "ctor" ELSE "notcreated"]
    /\ task = [w \in Workers |-> 0]
    /\ arg = [t \in Threads |-> 0]
    /\ j = 1
    /\ kind = [t \in TaskIds |-> "none"]
    /\ nextId = 1
    /\ terminated = FALSE
    /\ executed = [t \in TaskIds |-> 0]
    /\ pushSeq = <<>>
    /\ deqSeq = <<>>
    /\ submitted = {}
    /\ submittedBefore = {}
    /\ drainSnapshot = {}
    /\ lateCalls = {}
    /\ joinCalls = [w \in Workers |-> 0]
    /\ shutdownRuns = 0
    /\ afterFirst = <<>>
    /\ GQInit
    /\ BankInit
    /\ PQInit
    /\ LoggerInit

----------------------------------------------------------------------------
(* ThreadPool::ThreadPool *)

\* A loop test that runs one turn too many.
CtorMore_OffByOne == i <= threadCount

\* The constructor's loop test.
CtorMore == i < threadCount

\* One turn of the constructor's loop: emplace_back starts the thread at once.
CtorLoop ==
    /\ ~terminated
    /\ pc[Owner] = "ctor"
    /\ IF CtorMore
       THEN /\ m_workers' = Append(m_workers, i + 1)
            /\ joinable' = [joinable EXCEPT ![i + 1] = TRUE]
            /\ pc' = [pc EXCEPT ![i + 1] = "lock"]
            /\ i' = i + 1
       ELSE /\ pc' = [pc EXCEPT ![Owner] = "client"]
            /\ UNCHANGED <<m_workers, joinable, i>>
    /\ UNCHANGED <<threadCount, m_tasks, m_mutex, m_condition, m_running, task,
                   arg, j, kind, nextId, terminated>>
    /\ UNCHANGED histVars
    /\ UNCHANGED otherVars

----------------------------------------------------------------------------
(* the worker lambda *)

\* The predicate handed to m_condition.wait.
WaitPredicate == m_tasks # <<>> \/ ~m_running

\* An exit test that forgets the queue.
ExitTest_NoDrain == ~m_running

\* The lambda's exit test.
ExitTest == ~m_running /\ m_tasks = <<>>

\* A pop() that was left out: the head stays in the queue.
Pop_Keep(q) == q

\* front() followed by pop(): the task taken and the queue left.
Front(q) == Head(q)
Pop(q) == Tail(q)

\* std::unique_lock lock(m_mutex)
WorkerLock(w) ==
    /\ ~terminated
    /\ pc[w] = "lock"
    /\ m_mutex = {}
    /\ m_mutex' = {w}
    /\ pc' = [pc EXCEPT ![w] = "wait"]
    /\ UNCHANGED <<threadCount, i, m_workers, joinable, m_tasks, m_condition,
                   m_running, task, arg, j, kind, nextId, terminated>>
    /\ UNCHANGED histVars
    /\ UNCHANGED otherVars

\* m_condition.wait(lock, pred): with the mutex held, test the predicate;
\* when it is false, release the mutex and block in one step.
WorkerWait(w) ==
    /\ ~terminated
    /\ pc[w] = "wait"
    /\ IF WaitPredicate
       THEN /\ pc' = [pc EXCEPT ![w] = "check"]
            /\ UNCHANGED <<m_mutex, m_condition>>
       ELSE /\ m_mutex' = m_mutex \ {w}
            /\ m_condition' = m_condition \cup {w}
            /\ pc' = [pc EXCEPT ![w] = "blocked"]
    /\ UNCHANGED <<threadCount, i, m_workers, joinable, m_tasks, m_running,
                   task, arg, j, kind, nextId, terminated>>
    /\ UNCHANGED histVars
    /\ UNCHANGED otherVars

\* A wait may return without a notification.
SpuriousWakeup(w) ==
    /\ ~terminated
    /\ pc[w] = "blocked"
    /\ w \in m_condition
    /\ m_condition' = m_condition \ {w}
    /\ pc' = [pc EXCEPT ![w] = "wakeup"]
    /\ UNCHANGED <<threadCount, i, m_workers, joinable, m_tasks, m_mutex,
                   m_running, task, arg, j, kind, nextId, terminated>>
    /\ UNCHANGED histVars
    /\ UNCHANGED otherVars

\* A woken wait takes the mutex again before it re-tests the predicate.
WorkerReacquire(w) ==
    /\ ~terminated
    /\ pc[w] = "wakeup"
    /\ m_mutex = {}
    /\ m_mutex' = {w}
    /\ pc' = [pc EXCEPT ![w] = "wait"]
    /\ UNCHANGED <<threadCount, i, m_workers, joinable, m_tasks, m_condition,
                   m_running, task, arg, j, kind, nextId, terminated>>
    /\ UNCHANGED histVars
    /\ UNCHANGED otherVars

\* A lock whose scope was not closed before task(): the worker keeps m_mutex.
AfterScope_Held(w) == m_mutex

\* The closing brace of the lock's scope, before task(): who holds m_mutex.
AfterScope(w) == m_mutex \ {w}

\* if (!m_running && m_tasks.empty()) return; task = front(); pop(); and the
\* end of the lock's scope.
WorkerCheck(w) ==
    /\ ~terminated
    /\ pc[w] = "check"
    /\ IF ExitTest
       THEN /\ pc' = [pc EXCEPT ![w] = "done"]
            /\ m_mutex' = m_mutex \ {w}
            /\ UNCHANGED <<m_tasks, task, deqSeq>>
       ELSE /\ task' = [task EXCEPT ![w] = Front(m_tasks)]
            /\ m_tasks' = Pop(m_tasks)
            /\ deqSeq' = Append(deqSeq, Front(m_tasks))
            /\ m_mutex' = AfterScope(w)
            /\ pc' = [pc EXCEPT ![w] = "run"]
    /\ UNCHANGED <<threadCount, i, m_workers, joinable, m_condition, m_running,
                   arg, j, kind, nextId, terminated>>
    /\ UNCHANGED <<executed, pushSeq, submitted, submittedBefore,
                   drainSnapshot, lateCalls, joinCalls, shutdownRuns, afterFirst>>
    /\ UNCHANGED otherVars

\* task(): the call begins.
WorkerStart(w) ==
    /\ ~terminated
    /\ pc[w] = "run"
    /\ pc' = [pc EXCEPT ![w] = "exec"]
    /\ UNCHANGED <<threadCount, i, m_workers, joinable, m_tasks, m_mutex,
                   m_condition, m_running, task, arg, j, kind, nextId,
                   terminated>>
    /\ UNCHANGED <<executed, pushSeq, deqSeq, submitted, submittedBefore,
                   drainSnapshot, lateCalls, joinCalls, shutdownRuns,
                   afterFirst>>
    /\ UNCHANGED otherVars

\* A loop that tests the flag instead: while (m_running).
LoopTest_Running == m_running

\* The lambda's loop test: while (true).
LoopTest == TRUE

\* Where a worker goes when task() has returned.
AfterTask == IF LoopTest THEN "lock" ELSE "done"

\* What an exception leaving task() does: the lambda has no handler, so it
\* leaves the thread function and std::terminate ends the process.
Unhandled == TRUE

\* The body of the task being run.
TaskBody(w) ==
    /\ ~terminated
    /\ pc[w] = "exec"
    /\ CASE kind[task[w]] = "plain" ->
              /\ executed' = [executed EXCEPT ![task[w]] = @ + 1]
              /\ task' = [task EXCEPT ![w] = 0]
              /\ pc' = [pc EXCEPT ![w] = AfterTask]
              /\ UNCHANGED <<arg, terminated, submitted, lateCalls>>
         [] kind[task[w]] = "throws" ->
              /\ IF Unhandled
                 THEN /\ terminated' = TRUE
                      /\ UNCHANGED <<pc, task>>
                 ELSE /\ task' = [task EXCEPT ![w] = 0]
                      /\ pc' = [pc EXCEPT ![w] = AfterTask]
                      /\ UNCHANGED terminated
              /\ UNCHANGED <<arg, executed, submitted, lateCalls>>
         [] kind[task[w]] = "spawns" ->
              /\ arg' = [arg EXCEPT ![w] = task[w] + 1]
              /\ submitted' = submitted \cup {task[w] + 1}
              /\ lateCalls' = IF m_running THEN lateCalls
                              ELSE lateCalls \cup {task[w] + 1}
              /\ pc' = [pc EXCEPT ![w] = "enq_lock"]
              /\ UNCHANGED <<task, executed, terminated>>
    /\ UNCHANGED <<threadCount, i, m_workers, joinable, m_tasks, m_mutex,
                   m_condition, m_running, j, kind, nextId>>
    /\ UNCHANGED <<pushSeq, deqSeq, submittedBefore, drainSnapshot,
                   joinCalls, shutdownRuns, afterFirst>>
    /\ UNCHANGED otherVars

\* A spawning body returns after its enqueueTask call.
TaskReturn(w) ==
    /\ ~terminated
    /\ pc[w] = "exec_end"
    /\ executed' = [executed EXCEPT ![task[w]] = @ + 1]
    /\ task' = [task EXCEPT ![w] = 0]
    /\ pc' = [pc EXCEPT ![w] = AfterTask]
    /\ UNCHANGED <<threadCount, i, m_workers, joinable, m_tasks, m_mutex,
                   m_condition, m_running, arg, j, kind, nextId, terminated>>
    /\ UNCHANGED <<pushSeq, deqSeq, submitted, submittedBefore,
                   drainSnapshot, lateCalls, joinCalls, shutdownRuns,
                   afterFirst>>
    /\ UNCHANGED otherVars

----------------------------------------------------------------------------
(* ThreadPool::enqueueTask, called by the owner or by a running task *)

\* The owner calls enqueueTask with a new task of kind k.  A spawning task
\* carries its child, the next task instance.
Submit(k) ==
    /\ ~terminated
    /\ pc[Owner] = "client"
    /\ nextId + (IF k = "spawns" THEN 1 ELSE 0) <= MaxTasks
    /\ kind' = [t \in TaskIds |->
                  IF t = nextId THEN k
                  ELSE IF k = "spawns" /\ t = nextId + 1 THEN "plain"
                  ELSE kind[t]]
    /\ nextId' = nextId + (IF k = "spawns" THEN 2 ELSE 1)
    /\ arg' = [arg EXCEPT ![Owner] = nextId]
    /\ submitted' = submitted \cup {nextId}
    /\ pc' = [pc EXCEPT ![Owner] = "enq_lock"]
    /\ UNCHANGED <<threadCount, i, m_workers, joinable, m_tasks, m_mutex,
                   m_condition, m_running, task, j, terminated>>
    /\ UNCHANGED <<executed, pushSeq, deqSeq, submittedBefore,
                   drainSnapshot, lateCalls, joinCalls, shutdownRuns,
                   afterFirst>>
    /\ UNCHANGED otherVars

\* An enqueueTask without its lock_guard: nobody holds m_mutex.
LockGuard_Missing(t) == {}

\* Who holds m_mutex once enqueueTask's lock_guard is constructed.
LockGuard(t) == {t}

\* std::lock_guard lock(m_mutex)
EnqLock(t) ==
    /\ ~terminated
    /\ pc[t] = "enq_lock"
    /\ m_mutex = {}
    /\ m_mutex' = LockGuard(t)
    /\ pc' = [pc EXCEPT ![t] = "enq_push"]
    /\ UNCHANGED <<threadCount, i, m_workers, joinable, m_tasks, m_condition,
                   m_running, task, arg, j, kind, nextId, terminated>>
    /\ UNCHANGED histVars
    /\ UNCHANGED otherVars

\* A push at the wrong end of the queue.
Push_Front(q, t) == <<t>> \o q

\* m_tasks.push(std::move(task)): the queue after the push.
Push(q, t) == Append(q, t)

\* The push and the end of the lock's scope.
EnqPush(t) ==
    /\ ~terminated
    /\ pc[t] = "enq_push"
    /\ m_tasks' = Push(m_tasks, arg[t])
    /\ pushSeq' = Append(pushSeq, arg[t])
    /\ m_mutex' = m_mutex \ {t}
    /\ pc' = [pc EXCEPT ![t] = "enq_notify"]
    /\ UNCHANGED <<threadCount, i, m_workers, joinable, m_condition, m_running,
                   task, arg, j, kind, nextId, terminated>>
    /\ UNCHANGED <<executed, deqSeq, submitted, submittedBefore,
                   drainSnapshot, lateCalls, joinCalls, shutdownRuns,
                   afterFirst>>
    /\ UNCHANGED otherVars

\* A notify_all() where notify_one() was meant: every waiter is woken.
NotifyOne_All(waiters) == {waiters}

\* m_condition.notify_one(): the sets of waiters it may wake, one waiter when
\* some thread waits and none otherwise.
NotifyOne(waiters) == IF waiters = {} THEN {{}} ELSE {{v} : v \in waiters}

\* m_condition.notify_one(), and the return to the caller.
EnqNotify(t) ==
    /\ ~terminated
    /\ pc[t] = "enq_notify"
    /\ \E woken \in NotifyOne(m_condition) :
         /\ m_condition' = m_condition \ woken
         /\ pc' = [u \in Threads |->
                     IF u = t THEN (IF t = Owner THEN "client" ELSE "exec_end")
                     ELSE IF u \in woken THEN "wakeup"
                     ELSE pc[u]]
    /\ arg' = [arg EXCEPT ![t] = 0]
    /\ UNCHANGED <<threadCount, i, m_workers, joinable, m_tasks, m_mutex,
                   m_running, task, j, kind, nextId, terminated>>
    /\ UNCHANGED histVars
    /\ UNCHANGED otherVars

----------------------------------------------------------------------------
(* ThreadPool::~ThreadPool *)

\* The owner lets go of the pool: the destructor starts.
DtorBegin ==
    /\ ~terminated
    /\ pc[Owner] = "client"
    /\ pc' = [pc EXCEPT ![Owner] = "dtor_lock"]
    /\ submittedBefore' = submitted
    /\ shutdownRuns' = 1
    /\ UNCHANGED <<threadCount, i, m_workers, joinable, m_tasks, m_mutex,
                   m_condition, m_running, task, arg, j, kind, nextId,
                   terminated>>
    /\ UNCHANGED <<executed, pushSeq, deqSeq, submitted,
                   drainSnapshot, lateCalls, joinCalls, afterFirst>>
    /\ UNCHANGED otherVars

\* std::lock_guard lock(m_mutex)
DtorLock ==
    /\ ~terminated
    /\ pc[Owner] = "dtor_lock"
    /\ m_mutex = {}
    /\ m_mutex' = {Owner}
    /\ pc' = [pc EXCEPT ![Owner] = "dtor_clear"]
    /\ UNCHANGED <<threadCount, i, m_workers, joinable, m_tasks, m_condition,
                   m_running, task, arg, j, kind, nextId, terminated>>
    /\ UNCHANGED histVars
    /\ UNCHANGED otherVars

\* m_running = false, and the end of the lock's scope.
DtorClear ==
    /\ ~terminated
    /\ pc[Owner] = "dtor_clear"
    /\ m_running' = FALSE
    /\ m_mutex' = m_mutex \ {Owner}
    /\ drainSnapshot' = IF m_running THEN Range(m_tasks) ELSE drainSnapshot
    /\ pc' = [pc EXCEPT ![Owner] = "dtor_notify"]
    /\ UNCHANGED <<threadCount, i, m_workers, joinable, m_tasks, m_condition,
                   task, arg, j, kind, nextId, terminated>>
    /\ UNCHANGED <<executed, pushSeq, deqSeq, submitted,
                   submittedBefore, lateCalls, joinCalls, shutdownRuns,
                   afterFirst>>
    /\ UNCHANGED otherVars

\* A notify_one() where notify_all() was meant: all waiters but one stay
\* blocked.
NotifyAll_One(waiters) ==
    IF waiters = {} THEN {} ELSE waiters \ {CHOOSE v \in waiters : TRUE}

\* m_condition.notify_all(): the workers that stay blocked.
NotifyAll(waiters) == {}

DtorNotify ==
    /\ ~terminated
    /\ pc[Owner] = "dtor_notify"
    /\ m_condition' = NotifyAll(m_condition)
    /\ pc' = [t \in Threads |->
                IF t = Owner THEN "dtor_join"
                ELSE IF t \in m_condition \ NotifyAll(m_condition) THEN "wakeup"
                ELSE pc[t]]
    /\ j' = 1
    /\ UNCHANGED <<threadCount, i, m_workers, joinable, m_tasks, m_mutex,
                   m_running, task, arg, kind, nextId, terminated>>
    /\ UNCHANGED histVars
    /\ UNCHANGED otherVars

\* A destructor that joins without asking joinable().
Joinable_Always(w) == TRUE

\* worker.joinable()
Joinable(w) == joinable[w]

\* One turn of the destructor's loop over m_workers.  join() blocks until the
\* thread has finished; join() on a thread that is not joinable throws
\* std::system_error, which leaves a destructor and ends the process.
DtorJoin ==
    /\ ~terminated
    /\ pc[Owner] = "dtor_join"
    /\ IF j > Len(m_workers)
       THEN /\ pc' = [pc EXCEPT ![Owner] = "returned"]
            /\ UNCHANGED <<j, joinable, joinCalls, terminated>>
       ELSE IF Joinable(m_workers[j])
       THEN /\ joinCalls' = [joinCalls EXCEPT ![m_workers[j]] = @ + 1]
            /\ IF joinable[m_workers[j]]
               THEN /\ pc[m_workers[j]] = "done"
                    /\ joinable' = [joinable EXCEPT ![m_workers[j]] = FALSE]
                    /\ j' = j + 1
                    /\ UNCHANGED terminated
               ELSE /\ terminated' = TRUE
                    /\ UNCHANGED <<j, joinable>>
            /\ UNCHANGED pc
       ELSE /\ j' = j + 1
            /\ UNCHANGED <<pc, joinable, joinCalls, terminated>>
    /\ UNCHANGED <<threadCount, i, m_workers, m_tasks, m_mutex, m_condition,
                   m_running, task, arg, kind, nextId>>
    /\ UNCHANGED <<executed, pushSeq, deqSeq, submitted,
                   submittedBefore, drainSnapshot, lateCalls, shutdownRuns, afterFirst>>
    /\ UNCHANGED otherVars

\* The shutdown sequence (the destructor's body) is run once more.
ShutdownAgain ==
    /\ ~terminated
    /\ pc[Owner] = "returned"
    /\ shutdownRuns < MaxShutdowns
    /\ shutdownRuns' = shutdownRuns + 1
    /\ afterFirst' = IF shutdownRuns = 1 THEN PoolState ELSE afterFirst
    /\ pc' = [pc EXCEPT ![Owner] = "dtor_lock"]
    /\ UNCHANGED <<threadCount, i, m_workers, joinable, m_tasks, m_mutex,
                   m_condition, m_running, task, arg, j, kind, nextId,
                   terminated>>
    /\ UNCHANGED <<executed, pushSeq, deqSeq, submitted,
                   submittedBefore, drainSnapshot, lateCalls, joinCalls>>
    /\ UNCHANGED otherVars

----------------------------------------------------------------------------

WorkerStep(w) ==
    \/ WorkerLock(w)
    \/ WorkerWait(w)
    \/ WorkerReacquire(w)
    \/ WorkerCheck(w)
    \/ WorkerStart(w)
    \/ TaskBody(w)
    \/ TaskReturn(w)

OwnerStep ==
    \/ CtorLoop
    \/ \E k \in Kinds : Submit(k)
    \/ DtorBegin
    \/ DtorLock
    \/ DtorClear
    \/ DtorNotify
    \/ DtorJoin

Next ==
    \/ OwnerStep
    \/ \E w \in Workers : WorkerStep(w)
    \/ \E w \in Workers : SpuriousWakeup(w)
    \/ \E t \in Threads : EnqLock(t)
    \/ \E t \in Threads : EnqPush(t)
    \/ \E t \in Threads : EnqNotify(t)

Spec == Init /\ [][Next]_vars

\* The same program with the shutdown sequence run MaxShutdowns times.
NextTwice == Next \/ ShutdownAgain

SpecTwice == Init /\ [][NextTwice]_vars

\* Scheduling: every thread that can take a step eventually takes one, and a
\* thread that tries to lock m_mutex eventually gets it.  Nothing forces a
\* spurious wakeup.
Fairness ==
    /\ WF_vars(CtorLoop \/ (\E k \in Kinds : Submit(k)) \/ DtorBegin
               \/ DtorClear \/ DtorNotify \/ DtorJoin)
    /\ SF_vars(DtorLock)
    /\ \A w \in Workers :
         /\ WF_vars(WorkerWait(w) \/ WorkerCheck(w) \/ WorkerStart(w)
                    \/ TaskBody(w) \/ TaskReturn(w))
         /\ SF_vars(WorkerLock(w) \/ WorkerReacquire(w))
    /\ \A t \in Threads :
         /\ WF_vars(EnqPush(t) \/ EnqNotify(t))
         /\ SF_vars(EnqLock(t))

FairSpec == Spec /\ Fairness

----------------------------------------------------------------------------
(* Properties of the ThreadPool *)

\* Position of task t in sequence s (0: absent).
Pos(s, t) == IF t \in Range(s) THEN CHOOSE k \in 1..Len(s) : s[k] = t ELSE 0

\* How many times t occurs in the queue, and how many workers hold it.
InQueue(t) == Cardinality({k \in 1..Len(m_tasks) : m_tasks[k] = t})
HeldBy(t) == {w \in Workers : task[w] = t}

\* The body of t has begun: t was popped and its worker is past the call.
Started(t) == t \in Range(deqSeq) /\ \A w \in HeldBy(t) : pc[w] # "run"

\* Tasks the owner itself passed to enqueueTask, in the order of its calls.
OwnerTask(t) == kind[t] # "none" /\ ~(t > 1 /\ kind[t - 1] = "spawns")

InEnqueue(t) == pc[t] \in {"enq_lock", "enq_push", "enq_notify"}
DtorReturned == pc[Owner] = "returned"
Stopped(w) == pc[w] = "done"

\* C1: with at least one worker, when the destructor has returned every task
\* passed to enqueueTask before the destructor started has run to completion
\* exactly once; and no task ever runs twice.
C1_ExactlyOnce ==
    /\ \A t \in TaskIds : executed[t] <= 1
    /\ (DtorReturned /\ threadCount >= 1) =>
           \A t \in submittedBefore : executed[t] = 1

C1_Witness ==
    /\ DtorReturned
    /\ threadCount >= 1
    /\ Cardinality(submittedBefore) >= 2
    /\ \A t \in submittedBefore : executed[t] = 1

\* C2: every task that was pushed is in exactly one place: once in the queue,
\* or held by one worker, or finished once.  A task not yet pushed is nowhere.
C2_OnePlace ==
    \A t \in TaskIds :
        InQueue(t) + Cardinality(HeldBy(t)) + executed[t]
            = (IF t \in Range(pushSeq) THEN 1 ELSE 0)

C2_Witness ==
    /\ \E a, b \in Threads : a # b /\ InEnqueue(a) /\ InEnqueue(b)
    /\ \E t \in TaskIds : InQueue(t) = 1
    /\ \E t \in TaskIds : HeldBy(t) # {}

\* C3 as stated: once any worker has left its loop, every task that was in
\* the queue when the destructor cleared m_running has been executed.
C3_ExecutedBeforeAnyStop ==
    (\E w \in Workers : Stopped(w)) =>
        \A t \in drainSnapshot : executed[t] = 1

\* C3, amended: every task that was in the queue when the destructor cleared
\* m_running has left the queue before any worker leaves its loop, and has
\* been executed once the last worker has left its loop.
C3_DrainedBeforeStop ==
    /\ (\E w \in Workers : Stopped(w)) =>
           \A t \in drainSnapshot : InQueue(t) = 0
    /\ (threadCount >= 1 /\ \A w \in 1..threadCount : Stopped(w)) =>
           \A t \in drainSnapshot : executed[t] = 1

C3_Witness ==
    /\ \E w \in Workers : Stopped(w)
    /\ \E t \in drainSnapshot :
         /\ executed[t] = 0
         /\ HeldBy(t) # {}
         /\ InQueue(t) = 0

\* C4: tasks leave the queue in the order they were pushed; two tasks the
\* owner enqueued one after the other are popped in that order; and with one
\* worker the earlier one begins before the later one begins.
C4_Fifo ==
    /\ deqSeq \o m_tasks = pushSeq
    /\ \A a, b \in TaskIds :
         (OwnerTask(a) /\ OwnerTask(b) /\ a < b /\ b \in Range(deqSeq)) =>
             /\ a \in Range(deqSeq)
             /\ Pos(deqSeq, a) < Pos(deqSeq, b)
    /\ threadCount = 1 =>
         \A a, b \in TaskIds :
           (OwnerTask(a) /\ OwnerTask(b) /\ a < b /\ Started(b)) => Started(a)

C4_Witness ==
    /\ threadCount = 1
    /\ \E a, b \in TaskIds :
         /\ OwnerTask(a) /\ OwnerTask(b) /\ a < b
         /\ Started(a) /\ Started(b)
         /\ executed[b] = 0

\* C5: once the destructor has started it returns, with every worker out of
\* its loop and joined and none blocked on the condition variable.
C5_DtorReturns ==
    (pc[Owner] = "dtor_lock") ~>
        /\ DtorReturned
        /\ m_condition = {}
        /\ \A w \in 1..threadCount : Stopped(w) /\ ~joinable[w]

\* C6: a worker whose task has thrown goes on, and so does the process.
C6_FailureContained ==
    \A w \in Workers :
        (pc[w] = "exec" /\ task[w] # 0 /\ kind[task[w]] = "throws") => ~terminated

\* C7: a task passed to enqueueTask after m_running was cleared is never
\* added to the queue.
C7_NoLateAccept == \A t \in lateCalls : t \notin Range(pushSeq)

\* C8: a pool is never constructed with threadCount < 1.
C8_RejectsZeroThreads == threadCount < 1 => pc[Owner] = "ctor"

\* C9: a second run of the shutdown sequence never waits, never fails, calls
\* join() on no worker again, and returns with the pool as the first run
\* left it.
C9_SecondShutdownNoOp ==
    /\ \A w \in Workers : joinCalls[w] <= 1
    /\ shutdownRuns >= 2 =>
         /\ ~terminated
         /\ pc[Owner] = "dtor_lock" => m_mutex = {}
         /\ (pc[Owner] = "dtor_join" /\ j <= Len(m_workers)) =>
                ~joinable[m_workers[j]]
         /\ DtorReturned => PoolState = afterFirst

C9_Witness ==
    /\ shutdownRuns >= 2
    /\ DtorReturned
    /\ threadCount >= 2
    /\ \E t \in TaskIds : executed[t] = 1

\* C10: from the end of construction on, m_workers holds exactly threadCount
\* workers, each one started, and no thread outside m_workers exists; during
\* construction it holds the i workers started so far.
C10_FixedWorkers ==
    /\ m_workers = [k \in 1..i |-> k]
    /\ \A w \in Workers : (pc[w] # "notcreated") <=> (w \in Range(m_workers))
    /\ pc[Owner] # "ctor" => Len(m_workers) = threadCount

C10_Witness ==
    /\ pc[Owner] = "dtor_join"
    /\ threadCount >= 2
    /\ Len(m_workers) = threadCount
    /\ \E w \in Workers : joinable[w] /\ Stopped(w)

\* The states of a worker: Idle (getting a task), Running (from the pop to
\* the return of task()), Stopped (out of the loop).
Idle(w) == pc[w] \in {"lock", "wait", "blocked", "wakeup", "check"}
Running(w) ==
    pc[w] \in {"run", "exec", "enq_lock", "enq_push", "enq_notify", "exec_end"}
WState(w) ==
    IF pc[w] = "notcreated" THEN "NotStarted"
    ELSE IF Idle(w) THEN "Idle"
    ELSE IF Running(w) THEN "Running"
    ELSE "Stopped"

\* The tasks that are executing.
Executing == {t \in TaskIds : \E w \in HeldBy(t) : Running(w)}

\* The pool's lifecycle: 0 Accepting, 1 Draining, 2 Stopped.
Phase == IF m_running THEN 0 ELSE IF DtorReturned THEN 2 ELSE 1

\* C11: a worker leaves its loop only from the exit test after the wait,
\* holding m_mutex, with m_running false and the queue empty.
C11_ExitOnlyWhenDrained ==
    [][\A w \in Workers :
         (pc[w] # "done" /\ pc'[w] = "done") =>
             /\ pc[w] = "check"
             /\ w \in m_mutex
             /\ ~m_running
             /\ m_tasks = <<>>
             /\ m_tasks' = <<>>]_vars

C11_Witness ==
    /\ \E w \in Workers : Stopped(w)
    /\ \E v \in Workers : pc[v] = "exec"
    /\ m_tasks = <<>>
    /\ Len(pushSeq) >= 2

\* C12: whenever a task is at the head of the queue and some worker is idle,
\* that task is eventually popped.
C12_DispatchLive ==
    \A t \in TaskIds :
        (m_tasks # <<>> /\ Head(m_tasks) = t /\ \E w \in Workers : Idle(w))
            ~> (t \in Range(deqSeq))

\* C13: once the destructor has issued notify_all, m_running is false and no
\* worker is blocked, or blocks again, on the condition variable.
C13_ShutdownReleasesAll ==
    pc[Owner] \in {"dtor_join", "returned"} =>
        /\ ~m_running
        /\ m_condition = {}
        /\ \A w \in Workers : pc[w] # "blocked"

C13_Witness ==
    /\ pc[Owner] = "dtor_join"
    /\ threadCount >= 2
    /\ \A w \in 1..threadCount : pc[w] = "wakeup"

\* C14: m_running is true until the destructor clears it, only the destructor
\* clears it, it is never set again, and the lifecycle never moves back.
C14_RunningMonotonic ==
    /\ [](shutdownRuns = 0 => m_running)
    /\ [][/\ ~m_running => ~m_running'
          /\ (m_running /\ ~m_running') => pc[Owner] = "dtor_clear"
          /\ Phase' >= Phase]_vars

C14_Witness ==
    /\ Phase = 2
    /\ threadCount >= 1
    /\ \E t \in TaskIds : executed[t] = 1

\* C15: a worker moves Idle -> Running -> Idle, stops only from Idle (at the
\* exit test), and once stopped stays stopped and takes no task.
C15_WorkerStateMachine ==
    [][\A w \in Workers :
         /\ <<WState(w), WState(w)'>> \in
               {<<"NotStarted", "NotStarted">>, <<"NotStarted", "Idle">>,
                <<"Idle", "Idle">>, <<"Idle", "Running">>,
                <<"Running", "Running">>, <<"Running", "Idle">>,
                <<"Idle", "Stopped">>, <<"Stopped", "Stopped">>}
         /\ (WState(w) = "Idle" /\ WState(w)' = "Stopped") => pc[w] = "check"
         /\ WState(w) = "Stopped" => (task[w] = 0 /\ task'[w] = 0)]_vars

C15_Witness ==
    /\ \E w \in Workers : Stopped(w)
    /\ \E v \in Workers : Idle(v)
    /\ \E t \in TaskIds : executed[t] = 1

\* C16: an enqueueTask call always gets to its push; the push appends the
\* task at the tail and leaves the rest of the queue as it was; the notify
\* wakes exactly one blocked worker when there is one, and none otherwise.
C16_EnqueueEffect ==
    [][\A t \in Threads :
         /\ (pc[t] = "enq_lock" /\ pc'[t] # "enq_lock") => pc'[t] = "enq_push"
         /\ (pc[t] = "enq_push" /\ pc'[t] # "enq_push") =>
                /\ pc'[t] = "enq_notify"
                /\ m_tasks' = Append(m_tasks, arg[t])
         /\ (pc[t] = "enq_notify" /\ pc'[t] # "enq_notify") =>
                LET woken == {w \in Workers :
                                pc[w] = "blocked" /\ pc'[w] = "wakeup"}
                IN /\ m_tasks' = m_tasks
                   /\ Cardinality(woken) = (IF m_condition = {} THEN 0 ELSE 1)
                   /\ m_condition' = m_condition \ woken]_vars

C16_Witness ==
    /\ m_running
    /\ Len(m_tasks) >= 2
    /\ \E w \in Workers : pc[w] = "wakeup"
    /\ \E v \in Workers : pc[v] = "blocked"

\* C17: at most one thread holds m_mutex, and a thread at a statement that
\* reads or changes m_tasks (the wait predicate, the exit test with front and
\* pop, the push) holds it.
C17_LockDiscipline ==
    /\ Cardinality(m_mutex) <= 1
    /\ \A w \in Workers : pc[w] \in {"wait", "check"} => w \in m_mutex
    /\ \A t \in Threads : pc[t] = "enq_push" => t \in m_mutex

C17_Witness ==
    /\ \E t \in Threads : pc[t] = "enq_push"
    /\ \E v \in Threads : pc[v] = "enq_lock"
    /\ \E w \in Workers : pc[w] \in {"lock", "wakeup"}

\* C18: a worker that holds a dequeued task does not hold m_mutex, except
\* inside the push of an enqueueTask call the task itself makes.
C18_TaskRunsUnlocked ==
    \A w \in Workers :
        pc[w] \in {"run", "exec", "enq_lock", "enq_notify", "exec_end"} =>
            w \notin m_mutex

C18_Witness ==
    \E w, v \in Workers :
        /\ w # v
        /\ pc[w] = "enq_push"
        /\ pc[v] = "exec"

\* C19: at most threadCount tasks execute at the same time, no task is held
\* by two workers, and a worker is Running exactly when it holds one task.
C19_BoundedParallelism ==
    /\ Cardinality(Executing) <= threadCount
    /\ \A t \in TaskIds : Cardinality(HeldBy(t)) <= 1
    /\ \A w \in Workers : Running(w) <=> task[w] # 0

C19_Witness ==
    /\ threadCount >= 2
    /\ Cardinality(Executing) = threadCount
    /\ m_tasks # <<>>

----------------------------------------------------------------------------
(* GuardedQueue (src/Concurrency/GuardedSuspension/main.cpp) *)

\* producer(): the next call queue->addData(i).
AddBegin(p) ==
    /\ gqpc[p] = "idle"
    /\ gqNext <= MaxItems
    /\ gqArg' = [gqArg EXCEPT ![p] = gqNext]
    /\ gqNext' = gqNext + 1
    /\ gqpc' = [gqpc EXCEPT ![p] = "add_lock"]
    /\ UNCHANGED <<m_dataQueue, gq_mutex, m_cv, gqAdded, gqReturned>>
    /\ UNCHANGED outsideGQ

\* addData: std::lock_guard lock(m_mutex)
AddLock(p) ==
    /\ gqpc[p] = "add_lock"
    /\ gq_mutex = {}
    /\ gq_mutex' = {p}
    /\ gqpc' = [gqpc EXCEPT ![p] = "add_push"]
    /\ UNCHANGED <<m_dataQueue, m_cv, gqNext, gqArg, gqAdded, gqReturned>>
    /\ UNCHANGED outsideGQ

\* A push at the wrong end of the queue.
GQPush_Front(q, v) == <<v>> \o q

\* m_dataQueue.push(value): the queue after the push.
GQPush(q, v) == Append(q, v)

\* addData: the push and the end of the lock's scope.
AddPush(p) ==
    /\ gqpc[p] = "add_push"
    /\ m_dataQueue' = GQPush(m_dataQueue, gqArg[p])
    /\ gqAdded' = Append(gqAdded, gqArg[p])
    /\ gq_mutex' = gq_mutex \ {p}
    /\ gqpc' = [gqpc EXCEPT ![p] = "add_notify"]
    /\ UNCHANGED <<m_cv, gqNext, gqArg, gqReturned>>
    /\ UNCHANGED outsideGQ

\* m_cv.notify_one(): the sets of waiters it may wake, one waiter when some
\* thread waits and none otherwise.
GQNotifyOne(waiters) == IF waiters = {} THEN {{}} ELSE {{v} : v \in waiters}

\* addData: m_cv.notify_one(), and the return.
AddNotify(p) ==
    /\ gqpc[p] = "add_notify"
    /\ \E woken \in GQNotifyOne(m_cv) :
         /\ m_cv' = m_cv \ woken
         /\ gqpc' = [t \in GQThreads |->
                       IF t = p THEN "idle"
                       ELSE IF t \in woken THEN "get_wakeup"
                       ELSE gqpc[t]]
    /\ gqArg' = [gqArg EXCEPT ![p] = 0]
    /\ UNCHANGED <<m_dataQueue, gq_mutex, gqNext, gqAdded, gqReturned>>
    /\ UNCHANGED outsideGQ

\* getData: std::unique_lock lock(m_mutex)
GetLock(c) ==
    /\ gqpc[c] = "idle"
    /\ gq_mutex = {}
    /\ gq_mutex' = {c}
    /\ gqpc' = [gqpc EXCEPT ![c] = "get_wait"]
    /\ UNCHANGED <<m_dataQueue, m_cv, gqNext, gqArg, gqAdded, gqReturned>>
    /\ UNCHANGED outsideGQ

\* A wait predicate with its test the wrong way round.
GQWaitPredicate_Inverted == m_dataQueue = <<>>

\* The predicate handed to m_cv.wait.
GQWaitPredicate == m_dataQueue # <<>>

\* getData: m_cv.wait(lock, pred): with the mutex held, test the predicate;
\* when it is false, release the mutex and block in one step.
GetWait(c) ==
    /\ gqpc[c] = "get_wait"
    /\ IF GQWaitPredicate
       THEN /\ gqpc' = [gqpc EXCEPT ![c] = "get_front"]
            /\ UNCHANGED <<gq_mutex, m_cv>>
       ELSE /\ gq_mutex' = gq_mutex \ {c}
            /\ m_cv' = m_cv \cup {c}
            /\ gqpc' = [gqpc EXCEPT ![c] = "get_blocked"]
    /\ UNCHANGED <<m_dataQueue, gqNext, gqArg, gqAdded, gqReturned>>
    /\ UNCHANGED outsideGQ

\* A wait may return without a notification.
GetSpuriousWakeup(c) ==
    /\ gqpc[c] = "get_blocked"
    /\ c \in m_cv
    /\ m_cv' = m_cv \ {c}
    /\ gqpc' = [gqpc EXCEPT ![c] = "get_wakeup"]
    /\ UNCHANGED <<m_dataQueue, gq_mutex, gqNext, gqArg, gqAdded,
                   gqReturned>>
    /\ UNCHANGED outsideGQ

\* A woken wait takes the mutex again before it re-tests the predicate.
GetReacquire(c) ==
    /\ gqpc[c] = "get_wakeup"
    /\ gq_mutex = {}
    /\ gq_mutex' = {c}
    /\ gqpc' = [gqpc EXCEPT ![c] = "get_wait"]
    /\ UNCHANGED <<m_dataQueue, m_cv, gqNext, gqArg, gqAdded, gqReturned>>
    /\ UNCHANGED outsideGQ

\* m_dataQueue.front() and m_dataQueue.pop().
GQFront(q) == Head(q)
GQPop(q) == Tail(q)

\* getData: value = front(); pop(); return value; the lock is released as
\* the function returns.
GetTake(c) ==
    /\ gqpc[c] = "get_front"
    /\ m_dataQueue' = GQPop(m_dataQueue)
    /\ gqReturned' = Append(gqReturned, GQFront(m_dataQueue))
    /\ gq_mutex' = gq_mutex \ {c}
    /\ gqpc' = [gqpc EXCEPT ![c] = "idle"]
    /\ UNCHANGED <<m_cv, gqNext, gqArg, gqAdded>>
    /\ UNCHANGED outsideGQ

NextGQ ==
    \/ \E p \in GQProducers : AddBegin(p)
    \/ \E p \in GQProducers : AddLock(p)
    \/ \E p \in GQProducers : AddPush(p)
    \/ \E p \in GQProducers : AddNotify(p)
    \/ \E c \in GQConsumers : GetLock(c)
    \/ \E c \in GQConsumers : GetWait(c)
    \/ \E c \in GQConsumers : GetSpuriousWakeup(c)
    \/ \E c \in GQConsumers : GetReacquire(c)
    \/ \E c \in GQConsumers : GetTake(c)

\* The GuardedQueue example alone: no ThreadPool is at work.
InitGQ == Init /\ threadCount = 0

SpecGQ == InitGQ /\ [][NextGQ]_vars

\* C20: getData takes a value only from a non-empty queue, with the mutex
\* held, and takes the head: the values returned so far, followed by the
\* queue, are the values added, in the order they were added; and no value is
\* returned twice.
C20_GuardedFifo ==
    /\ \A c \in GQConsumers :
         gqpc[c] = "get_front" => (m_dataQueue # <<>> /\ c \in gq_mutex)
    /\ gqReturned \o m_dataQueue = gqAdded
    /\ \A a, b \in 1..Len(gqReturned) :
         a # b => gqReturned[a] # gqReturned[b]

C20_Witness ==
    /\ Len(gqReturned) >= 2
    /\ gqReturned[1] > gqReturned[2]
    /\ \E c \in GQConsumers : gqpc[c] = "get_front"
    /\ \E c \in GQConsumers : gqpc[c] = "get_wakeup"

----------------------------------------------------------------------------
(* BankAccount (src/Concurrency/MonitorObject/main.cpp) *)

\* The amounts main passes to withdraw and deposit; a call is made with one
\* of them.
Amounts == {InitialBalance, WithdrawAmount, DepositAmount}

\* main: threads.emplace_back([&] { account->withdraw(a); }); the threads
\* are numbered in the order of the vector.
SpawnWithdraw(w) ==
    /\ bankMain = "spawning"
    /\ bankpc[w] = "notcreated"
    /\ \A v \in BankThreads : v < w => bankpc[v] # "notcreated"
    /\ \E a \in Amounts : amount' = [amount EXCEPT ![w] = a]
    /\ bankpc' = [bankpc EXCEPT ![w] = "w_lock"]
    /\ UNCHANGED <<m_balance, bank_mutex, bank_cv, bankMain>>
    /\ UNCHANGED outsideBank

\* main: threads.emplace_back([&] { account->deposit(a); }).
SpawnDeposit(d) ==
    /\ bankMain = "spawning"
    /\ bankpc[d] = "notcreated"
    /\ \A v \in BankThreads : v < d => bankpc[v] # "notcreated"
    /\ \E a \in Amounts : amount' = [amount EXCEPT ![d] = a]
    /\ bankpc' = [bankpc EXCEPT ![d] = "d_lock"]
    /\ UNCHANGED <<m_balance, bank_mutex, bank_cv, bankMain>>
    /\ UNCHANGED outsideBank

\* main reaches the join loop: it starts no more threads.
BankJoinBegin ==
    /\ bankMain = "spawning"
    /\ bankMain' = "joining"
    /\ UNCHANGED <<m_balance, bank_mutex, bank_cv, bankpc, amount>>
    /\ UNCHANGED outsideBank

\* main: the join loop ends when every started thread has returned.
BankJoin ==
    /\ bankMain = "joining"
    /\ \A t \in BankThreads : bankpc[t] \in {"notcreated", "d_done", "w_done"}
    /\ bankMain' = "final"
    /\ UNCHANGED <<m_balance, bank_mutex, bank_cv, bankpc, amount>>
    /\ UNCHANGED outsideBank

\* deposit: std::lock_guard lock(m_mutex)
DepositLock(d) ==
    /\ bankpc[d] = "d_lock"
    /\ bank_mutex = {}
    /\ bank_mutex' = {d}
    /\ bankpc' = [bankpc EXCEPT ![d] = "d_add"]
    /\ UNCHANGED <<m_balance, bank_cv, amount, bankMain>>
    /\ UNCHANGED outsideBank

\* deposit: m_balance += amount, and the end of the lock's scope.
DepositAdd(d) ==
    /\ bankpc[d] = "d_add"
    /\ m_balance' = m_balance + amount[d]
    /\ bank_mutex' = bank_mutex \ {d}
    /\ bankpc' = [bankpc EXCEPT ![d] = "d_notify"]
    /\ UNCHANGED <<bank_cv, amount, bankMain>>
    /\ UNCHANGED outsideBank

\* A deposit that notifies nobody.
BankNotifyAll_None(waiters) == {}

\* m_cv.notify_all(): the waiters it wakes.
BankNotifyAll(waiters) == waiters

\* deposit: m_cv.notify_all(), and the return.
DepositNotify(d) ==
    /\ bankpc[d] = "d_notify"
    /\ bank_cv' = bank_cv \ BankNotifyAll(bank_cv)
    /\ bankpc' = [t \in BankThreads |->
                    IF t = d THEN "d_done"
                    ELSE IF t \in BankNotifyAll(bank_cv) THEN "w_wakeup"
                    ELSE bankpc[t]]
    /\ UNCHANGED <<m_balance, bank_mutex, amount, bankMain>>
    /\ UNCHANGED outsideBank

\* withdraw: std::unique_lock lock(m_mutex)
WithdrawLock(w) ==
    /\ bankpc[w] = "w_lock"
    /\ bank_mutex = {}
    /\ bank_mutex' = {w}
    /\ bankpc' = [bankpc EXCEPT ![w] = "w_wait"]
    /\ UNCHANGED <<m_balance, bank_cv, amount, bankMain>>
    /\ UNCHANGED outsideBank

\* A wait that lets every withdrawal through.
BalanceSuffices_Always(b, a) == TRUE

\* The predicate handed to m_cv.wait: m_balance >= amount.
BalanceSuffices(b, a) == b >= a

\* withdraw: m_cv.wait(lock, pred): with the mutex held, test the predicate;
\* when it is false, release the mutex and block in one step.
WithdrawWait(w) ==
    /\ bankpc[w] = "w_wait"
    /\ IF BalanceSuffices(m_balance, amount[w])
       THEN /\ bankpc' = [bankpc EXCEPT ![w] = "w_sub"]
            /\ UNCHANGED <<bank_mutex, bank_cv>>
       ELSE /\ bank_mutex' = bank_mutex \ {w}
            /\ bank_cv' = bank_cv \cup {w}
            /\ bankpc' = [bankpc EXCEPT ![w] = "w_blocked"]
    /\ UNCHANGED <<m_balance, amount, bankMain>>
    /\ UNCHANGED outsideBank

\* A wait may return without a notification.
WithdrawSpuriousWakeup(w) ==
    /\ bankpc[w] = "w_blocked"
    /\ w \in bank_cv
    /\ bank_cv' = bank_cv \ {w}
    /\ bankpc' = [bankpc EXCEPT ![w] = "w_wakeup"]
    /\ UNCHANGED <<m_balance, bank_mutex, amount, bankMain>>
    /\ UNCHANGED outsideBank

\* A woken wait takes the mutex again before it re-tests the predicate.
WithdrawReacquire(w) ==
    /\ bankpc[w] = "w_wakeup"
    /\ bank_mutex = {}
    /\ bank_mutex' = {w}
    /\ bankpc' = [bankpc EXCEPT ![w] = "w_wait"]
    /\ UNCHANGED <<m_balance, bank_cv, amount, bankMain>>
    /\ UNCHANGED outsideBank

\* withdraw: m_balance -= amount; the lock is released as the function
\* returns.
WithdrawSub(w) ==
    /\ bankpc[w] = "w_sub"
    /\ m_balance' = m_balance - amount[w]
    /\ bank_mutex' = bank_mutex \ {w}
    /\ bankpc' = [bankpc EXCEPT ![w] = "w_done"]
    /\ UNCHANGED <<bank_cv, amount, bankMain>>
    /\ UNCHANGED outsideBank

BankMainStep ==
    \/ \E w \in BankThreads : SpawnWithdraw(w)
    \/ \E d \in BankThreads : SpawnDeposit(d)
    \/ BankJoinBegin
    \/ BankJoin

DepositStep(d) ==
    \/ DepositLock(d)
    \/ DepositAdd(d)
    \/ DepositNotify(d)

WithdrawStep(w) ==
    \/ WithdrawLock(w)
    \/ WithdrawWait(w)
    \/ WithdrawReacquire(w)
    \/ WithdrawSub(w)

\* A step of thread t, which is in a deposit or in a withdraw call.
BankThreadStep(t) ==
    \/ DepositStep(t)
    \/ WithdrawStep(t)

NextBank ==
    \/ BankMainStep
    \/ \E t \in BankThreads : BankThreadStep(t)
    \/ \E w \in BankThreads : WithdrawSpuriousWakeup(w)

\* The BankAccount example alone: no ThreadPool is at work.
InitBank == Init /\ threadCount = 0

SpecBank == InitBank /\ [][NextBank]_vars

\* Fair scheduling: main and every thread that can take a step again and
\* again eventually takes one, so a thread that tries to lock the mutex is
\* not passed over for ever.  Nothing forces a spurious wakeup.
BankFairness ==
    /\ WF_vars(BankMainStep)
    /\ \A t \in BankThreads : SF_vars(BankThreadStep(t))

FairSpecBank == SpecBank /\ BankFairness

RECURSIVE SumAmounts(_)
\* The sum of the arguments of the calls made by the threads in S.
SumAmounts(S) ==
    IF S = {} THEN 0
    ELSE LET t == CHOOSE x \in S : TRUE
         IN amount[t] + SumAmounts(S \ {t})

\* The deposits added and the withdrawals subtracted so far.
Deposited ==
    SumAmounts({d \in BankThreads : bankpc[d] \in {"d_notify", "d_done"}})
Withdrawn == SumAmounts({w \in BankThreads : bankpc[w] = "w_done"})

\* The withdrawing threads main has started.
StartedWithdrawers ==
    {w \in BankThreads :
       bankpc[w] \in {"w_lock", "w_wait", "w_blocked", "w_wakeup", "w_sub",
                      "w_done"}}

\* C21: withdraw subtracts only where m_balance >= amount, with the mutex
\* held, so the balance is never negative, and it is always the initial
\* balance plus the deposits made minus the withdrawals made.
C21_NeverNegative ==
    /\ m_balance >= 0
    /\ \A w \in BankThreads :
         bankpc[w] = "w_sub" => (m_balance >= amount[w] /\ w \in bank_mutex)
    /\ m_balance = InitialBalance + Deposited - Withdrawn

\* Two withdrawals competed for one deposit: one was served and emptied the
\* account, the other is blocked for more than the account holds.
C21_Witness ==
    /\ m_balance = 0
    /\ Deposited > 0
    /\ \E w, v \in BankThreads :
         /\ bankpc[w] = "w_done"
         /\ amount[w] > InitialBalance
         /\ bankpc[v] = "w_blocked"
         /\ amount[v] > 0

\* main has started a single withdrawal and starts no more threads.
SingleWithdraw(w) == bankMain = "joining" /\ StartedWithdrawers = {w}

\* C22: when main has started a single withdrawal and it is blocked while
\* the balance has reached its amount, the withdrawal eventually completes;
\* and when main has joined its threads the balance is the initial balance
\* plus the deposits minus that amount.
C22_BlockedWithdrawCompletes ==
    /\ (\E w \in BankThreads :
          /\ SingleWithdraw(w)
          /\ bankpc[w] = "w_blocked"
          /\ m_balance >= amount[w])
       ~> (\E w \in BankThreads : SingleWithdraw(w) /\ bankpc[w] = "w_done")
    /\ [](\A w \in BankThreads :
            (bankMain = "final" /\ StartedWithdrawers = {w})
            => m_balance = InitialBalance + Deposited - amount[w])

\* The single withdrawal is blocked, a deposit has just raised the balance
\* to its amount and is about to notify.
C22_Witness ==
    /\ bankMain = "joining"
    /\ \E w \in BankThreads :
         /\ StartedWithdrawers = {w}
         /\ bankpc[w] = "w_blocked"
         /\ amount[w] > InitialBalance
         /\ m_balance >= amount[w]
    /\ \E d \in BankThreads : bankpc[d] = "d_notify" /\ amount[d] > 0

----------------------------------------------------------------------------
(* ProducerConsumer (src/Concurrency/ProducerConsumer/main.cpp) *)

\* producerTask: the loop test i < MaxProduced; the call produce(i) or the
\* return.
ProduceLoop ==
    /\ prodpc = "p_loop"
    /\ prodpc' = IF prodI < MaxProduced THEN "p_lock" ELSE "p_done"
    /\ UNCHANGED <<m_queue, pq_mutex, m_condVar, m_done, staleDone, prodI,
                   conspc, pqMain, pqConsumed>>
    /\ UNCHANGED outsidePQ

\* produce: std::unique_lock<std::mutex> lock(m_mutex)
ProduceLock ==
    /\ prodpc = "p_lock"
    /\ pq_mutex = {}
    /\ pq_mutex' = {PQProducer}
    /\ prodpc' = "p_push"
    /\ UNCHANGED <<m_queue, m_condVar, m_done, staleDone, prodI, conspc,
                   pqMain, pqConsumed>>
    /\ UNCHANGED outsidePQ

\* m_condVar.notify_one(): the sets of waiters it may wake.
PQNotifyOne(waiters) == IF waiters = {} THEN {{}} ELSE {{v} : v \in waiters}

\* produce: m_queue.push(data), m_condVar.notify_one() with the mutex held,
\* the release of the mutex as produce returns, and ++i.
ProducePush ==
    /\ prodpc = "p_push"
    /\ m_queue' = Append(m_queue, prodI)
    /\ \E woken \in PQNotifyOne(m_condVar) :
         /\ m_condVar' = m_condVar \ woken
         /\ conspc' = IF PQConsumer \in woken THEN "c_wakeup" ELSE conspc
    /\ pq_mutex' = pq_mutex \ {PQProducer}
    /\ prodI' = prodI + 1
    /\ prodpc' = "p_loop"
    /\ UNCHANGED <<m_done, staleDone, pqMain, pqConsumed>>
    /\ UNCHANGED outsidePQ

\* The values the unlocked read of m_done in consume's loop test may give.
\* m_done is a plain bool written by stop() under the mutex: a read that no
\* lock orders after that write may still give the old value.
DoneRead == IF staleDone THEN {m_done, FALSE} ELSE {m_done}

\* consume: while (!m_done)
ConsumeTest ==
    /\ conspc = "c_test"
    /\ \E done \in DoneRead :
         conspc' = IF done THEN "c_returned" ELSE "c_lock"
    /\ UNCHANGED <<m_queue, pq_mutex, m_condVar, m_done, staleDone, prodpc,
                   prodI, pqMain, pqConsumed>>
    /\ UNCHANGED outsidePQ

\* consume: std::unique_lock<std::mutex> lock(m_mutex)
ConsumeLock ==
    /\ conspc = "c_lock"
    /\ pq_mutex = {}
    /\ pq_mutex' = {PQConsumer}
    /\ staleDone' = FALSE
    /\ conspc' = "c_wait"
    /\ UNCHANGED <<m_queue, m_condVar, m_done, prodpc, prodI, pqMain,
                   pqConsumed>>
    /\ UNCHANGED outsidePQ

\* The predicate handed to m_condVar.wait.
PQWaitPredicate == m_queue # <<>> \/ m_done

\* consume: m_condVar.wait(lock, pred): with the mutex held, test the
\* predicate; when it is false, release the mutex and block in one step.
ConsumeWait ==
    /\ conspc = "c_wait"
    /\ IF PQWaitPredicate
       THEN /\ conspc' = "c_take"
            /\ UNCHANGED <<pq_mutex, m_condVar>>
       ELSE /\ pq_mutex' = pq_mutex \ {PQConsumer}
            /\ m_condVar' = m_condVar \cup {PQConsumer}
            /\ conspc' = "c_blocked"
    /\ UNCHANGED <<m_queue, m_done, staleDone, prodpc, prodI, pqMain,
                   pqConsumed>>
    /\ UNCHANGED outsidePQ

\* A wait may return without a notification.
ConsumeSpuriousWakeup ==
    /\ conspc = "c_blocked"
    /\ PQConsumer \in m_condVar
    /\ m_condVar' = m_condVar \ {PQConsumer}
    /\ conspc' = "c_wakeup"
    /\ UNCHANGED <<m_queue, pq_mutex, m_done, staleDone, prodpc, prodI,
                   pqMain, pqConsumed>>
    /\ UNCHANGED outsidePQ

\* A woken wait takes the mutex again before it re-tests the predicate.
ConsumeReacquire ==
    /\ conspc = "c_wakeup"
    /\ pq_mutex = {}
    /\ pq_mutex' = {PQConsumer}
    /\ staleDone' = FALSE
    /\ conspc' = "c_wait"
    /\ UNCHANGED <<m_queue, m_condVar, m_done, prodpc, prodI, pqMain,
                   pqConsumed>>
    /\ UNCHANGED outsidePQ

\* consume: if (!m_queue.empty()) { front(); pop(); }, then the end of the
\* loop body, where the lock is released.
ConsumeTake ==
    /\ conspc = "c_take"
    /\ IF m_queue # <<>>
       THEN /\ pqConsumed' = Append(pqConsumed, Head(m_queue))
            /\ m_queue' = Tail(m_queue)
       ELSE UNCHANGED <<m_queue, pqConsumed>>
    /\ pq_mutex' = pq_mutex \ {PQConsumer}
    /\ conspc' = "c_test"
    /\ UNCHANGED <<m_condVar, m_done, staleDone, prodpc, prodI, pqMain>>
    /\ UNCHANGED outsidePQ

\* main: producer.join() returns and main calls stop().
StopCall ==
    /\ pqMain = "join_producer"
    /\ prodpc = "p_done"
    /\ pqMain' = "stop_lock"
    /\ UNCHANGED <<m_queue, pq_mutex, m_condVar, m_done, staleDone, prodpc,
                   prodI, conspc, pqConsumed>>
    /\ UNCHANGED outsidePQ

\* stop: std::unique_lock<std::mutex> lock(m_mutex)
StopLock ==
    /\ pqMain = "stop_lock"
    /\ pq_mutex = {}
    /\ pq_mutex' = {0}
    /\ pqMain' = "stop_set"
    /\ UNCHANGED <<m_queue, m_condVar, m_done, staleDone, prodpc, prodI,
                   conspc, pqConsumed>>
    /\ UNCHANGED outsidePQ

\* A stop that notifies nobody.
PQNotifyAll_None(waiters) == {}

\* m_condVar.notify_all(): the waiters it wakes.
PQNotifyAll(waiters) == waiters

\* stop: m_done = true, m_condVar.notify_all(), and the release of the
\* mutex as stop returns.  A consumer that is at its loop test has not
\* locked the mutex since, so its read of m_done races with this write.
StopSet ==
    /\ pqMain = "stop_set"
    /\ m_done' = TRUE
    /\ staleDone' = (conspc = "c_test")
    /\ m_condVar' = m_condVar \ PQNotifyAll(m_condVar)
    /\ conspc' = IF PQConsumer \in PQNotifyAll(m_condVar)
                 THEN "c_wakeup" ELSE conspc
    /\ pq_mutex' = pq_mutex \ {0}
    /\ pqMain' = "join_consumer"
    /\ UNCHANGED <<m_queue, prodpc, prodI, pqConsumed>>
    /\ UNCHANGED outsidePQ

\* main: consumer.join() returns.
JoinConsumer ==
    /\ pqMain = "join_consumer"
    /\ conspc = "c_returned"
    /\ pqMain' = "returned"
    /\ UNCHANGED <<m_queue, pq_mutex, m_condVar, m_done, staleDone, prodpc,
                   prodI, conspc, pqConsumed>>
    /\ UNCHANGED outsidePQ

ProducerStep ==
    \/ ProduceLoop
    \/ ProduceLock
    \/ ProducePush

ConsumerStep ==
    \/ ConsumeTest
    \/ ConsumeLock
    \/ ConsumeWait
    \/ ConsumeReacquire
    \/ ConsumeTake

PQMainStep ==
    \/ StopCall
    \/ StopLock
    \/ StopSet
    \/ JoinConsumer

NextPQ ==
    \/ ProducerStep
    \/ ConsumerStep
    \/ ConsumeSpuriousWakeup
    \/ PQMainStep

\* The ProducerConsumer example alone: no ThreadPool is at work.
InitPQ == Init /\ threadCount = 0

SpecPQ == InitPQ /\ [][NextPQ]_vars

\* Fair scheduling: every thread that can take a step again and again
\* eventually takes one.  Nothing forces a spurious wakeup.
PQFairness ==
    /\ SF_vars(ProducerStep)
    /\ SF_vars(ConsumerStep)
    /\ SF_vars(PQMainStep)

FairSpecPQ == SpecPQ /\ PQFairness

\* The values passed to produce() before stop() was called: main calls
\* stop() after the producer has returned.
ProducedBeforeStop ==
    IF pqMain = "join_producer" THEN {} ELSE 0..(MaxProduced - 1)

\* C23: when consume() has returned, every value passed to produce() before
\* stop() was called has been consumed.
C23_ConsumedBeforeReturn ==
    conspc = "c_returned" => ProducedBeforeStop \subseteq Range(pqConsumed)

\* C24: once stop() has been called, consume() eventually returns.
C24_ConsumeReturns ==
    (pqMain # "join_producer") ~> (conspc = "c_returned")

\* stop() is about to set m_done while the consumer is blocked in the wait
\* on an empty queue.
C24_Witness ==
    /\ pqMain = "stop_set"
    /\ conspc = "c_blocked"
    /\ m_queue = <<>>
    /\ Len(pqConsumed) = MaxProduced

----------------------------------------------------------------------------
(* Logger (src/Concurrency/ActiveObject/main.cpp) *)

\* main: the next call logger->logMessage(...).
LogBegin ==
    /\ logMain = "client"
    /\ logCount < MaxLogs
    /\ logCount' = logCount + 1
    /\ logMain' = "log_lock"
    /\ UNCHANGED <<m_logQueue, log_mutex, log_cv, logger_running, lwpc,
                   logWritten, pendingAtDtor>>
    /\ UNCHANGED outsideLogger

\* logMessage: std::lock_guard lock(m_mutex)
LogLock ==
    /\ logMain = "log_lock"
    /\ log_mutex = {}
    /\ log_mutex' = {LogMainThread}
    /\ logMain' = "log_push"
    /\ UNCHANGED <<m_logQueue, log_cv, logger_running, lwpc, logCount,
                   logWritten, pendingAtDtor>>
    /\ UNCHANGED outsideLogger

\* logMessage: m_logQueue.push(message), and the end of the lock's scope.
LogPush ==
    /\ logMain = "log_push"
    /\ m_logQueue' = Append(m_logQueue, logCount)
    /\ log_mutex' = log_mutex \ {LogMainThread}
    /\ logMain' = "log_notify"
    /\ UNCHANGED <<log_cv, logger_running, lwpc, logCount, logWritten,
                   pendingAtDtor>>
    /\ UNCHANGED outsideLogger

\* m_cv.notify_one(): the sets of waiters it may wake.
LogNotifyOne(waiters) == IF waiters = {} THEN {{}} ELSE {{v} : v \in waiters}

\* logMessage: m_cv.notify_one(), and the return.
LogNotify ==
    /\ logMain = "log_notify"
    /\ \E woken \in LogNotifyOne(log_cv) :
         /\ log_cv' = log_cv \ woken
         /\ lwpc' = IF LogWorker \in woken THEN "lw_wakeup" ELSE lwpc
    /\ logMain' = "client"
    /\ UNCHANGED <<m_logQueue, log_mutex, logger_running, logCount,
                   logWritten, pendingAtDtor>>
    /\ UNCHANGED outsideLogger

\* main: logger->waitForCompletion().
WaitBegin ==
    /\ logMain = "client"
    /\ logMain' = "wfc_lock"
    /\ UNCHANGED <<m_logQueue, log_mutex, log_cv, logger_running, lwpc,
                   logCount, logWritten, pendingAtDtor>>
    /\ UNCHANGED outsideLogger

\* waitForCompletion: std::lock_guard lock(m_mutex), once per turn.
WaitLock ==
    /\ logMain = "wfc_lock"
    /\ log_mutex = {}
    /\ log_mutex' = {LogMainThread}
    /\ logMain' = "wfc_test"
    /\ UNCHANGED <<m_logQueue, log_cv, logger_running, lwpc, logCount,
                   logWritten, pendingAtDtor>>
    /\ UNCHANGED outsideLogger

\* waitForCompletion: if (m_logQueue.empty()) break, which releases the
\* lock and returns; otherwise the sleep begins, with the lock held.
WaitTest ==
    /\ logMain = "wfc_test"
    /\ IF m_logQueue = <<>>
       THEN /\ log_mutex' = log_mutex \ {LogMainThread}
            /\ logMain' = "waited"
       ELSE /\ logMain' = "wfc_sleep"
            /\ UNCHANGED log_mutex
    /\ UNCHANGED <<m_logQueue, log_cv, logger_running, lwpc, logCount,
                   logWritten, pendingAtDtor>>
    /\ UNCHANGED outsideLogger

\* waitForCompletion: the sleep ends and so does the turn of the loop,
\* which releases the lock.
WaitSleep ==
    /\ logMain = "wfc_sleep"
    /\ log_mutex' = log_mutex \ {LogMainThread}
    /\ logMain' = "wfc_lock"
    /\ UNCHANGED <<m_logQueue, log_cv, logger_running, lwpc, logCount,
                   logWritten, pendingAtDtor>>
    /\ UNCHANGED outsideLogger

\* The Logger is destroyed: the destructor starts, after waitForCompletion
\* or without it.
LoggerDtorBegin ==
    /\ logMain \in {"client", "waited"}
    /\ logMain' = "ldtor_lock"
    /\ pendingAtDtor' = Len(m_logQueue)
    /\ UNCHANGED <<m_logQueue, log_mutex, log_cv, logger_running, lwpc,
                   logCount, logWritten>>
    /\ UNCHANGED outsideLogger

\* ~Logger: std::lock_guard lock(m_mutex)
LoggerDtorLock ==
    /\ logMain = "ldtor_lock"
    /\ log_mutex = {}
    /\ log_mutex' = {LogMainThread}
    /\ logMain' = "ldtor_clear"
    /\ UNCHANGED <<m_logQueue, log_cv, logger_running, lwpc, logCount,
                   logWritten, pendingAtDtor>>
    /\ UNCHANGED outsideLogger

\* ~Logger: m_running = false, and the end of the lock's scope.
LoggerDtorClear ==
    /\ logMain = "ldtor_clear"
    /\ logger_running' = FALSE
    /\ log_mutex' = log_mutex \ {LogMainThread}
    /\ logMain' = "ldtor_notify"
    /\ UNCHANGED <<m_logQueue, log_cv, lwpc, logCount, logWritten,
                   pendingAtDtor>>
    /\ UNCHANGED outsideLogger

\* ~Logger: m_cv.notify_one()
LoggerDtorNotify ==
    /\ logMain = "ldtor_notify"
    /\ \E woken \in LogNotifyOne(log_cv) :
         /\ log_cv' = log_cv \ woken
         /\ lwpc' = IF LogWorker \in woken THEN "lw_wakeup" ELSE lwpc
    /\ logMain' = "ldtor_join"
    /\ UNCHANGED <<m_logQueue, log_mutex, logger_running, logCount,
                   logWritten, pendingAtDtor>>
    /\ UNCHANGED outsideLogger

\* ~Logger: m_worker->join() returns when processLogs has returned.
LoggerDtorJoin ==
    /\ logMain = "ldtor_join"
    /\ lwpc = "lw_exited"
    /\ logMain' = "returned"
    /\ UNCHANGED <<m_logQueue, log_mutex, log_cv, logger_running, lwpc,
                   logCount, logWritten, pendingAtDtor>>
    /\ UNCHANGED outsideLogger

\* processLogs: std::unique_lock lock(m_mutex), once per turn of the outer
\* loop.
LogWorkerLock ==
    /\ lwpc = "lw_lock"
    /\ log_mutex = {}
    /\ log_mutex' = {LogWorker}
    /\ lwpc' = "lw_wait"
    /\ UNCHANGED <<m_logQueue, log_cv, logger_running, logMain, logCount,
                   logWritten, pendingAtDtor>>
    /\ UNCHANGED outsideLogger

\* The predicate handed to m_cv.wait.
LogWaitPredicate == m_logQueue # <<>> \/ ~logger_running

\* processLogs: m_cv.wait(lock, pred): with the mutex held, test the
\* predicate; when it is false, release the mutex and block in one step.
LogWorkerWait ==
    /\ lwpc = "lw_wait"
    /\ IF LogWaitPredicate
       THEN /\ lwpc' = "lw_check"
            /\ UNCHANGED <<log_mutex, log_cv>>
       ELSE /\ log_mutex' = log_mutex \ {LogWorker}
            /\ log_cv' = log_cv \cup {LogWorker}
            /\ lwpc' = "lw_blocked"
    /\ UNCHANGED <<m_logQueue, logger_running, logMain, logCount, logWritten,
                   pendingAtDtor>>
    /\ UNCHANGED outsideLogger

\* A wait may return without a notification.
LogWorkerSpuriousWakeup ==
    /\ lwpc = "lw_blocked"
    /\ LogWorker \in log_cv
    /\ log_cv' = log_cv \ {LogWorker}
    /\ lwpc' = "lw_wakeup"
    /\ UNCHANGED <<m_logQueue, log_mutex, logger_running, logMain, logCount,
                   logWritten, pendingAtDtor>>
    /\ UNCHANGED outsideLogger

\* A woken wait takes the mutex again before it re-tests the predicate.
LogWorkerReacquire ==
    /\ lwpc = "lw_wakeup"
    /\ log_mutex = {}
    /\ log_mutex' = {LogWorker}
    /\ lwpc' = "lw_wait"
    /\ UNCHANGED <<m_logQueue, log_cv, logger_running, logMain, logCount,
                   logWritten, pendingAtDtor>>
    /\ UNCHANGED outsideLogger

\* An exit test that forgets the queue.
LogExitTest_NoDrain == ~logger_running

\* processLogs: if (!m_running && m_logQueue.empty()) break
LogExitTest == ~logger_running /\ m_logQueue = <<>>

\* processLogs: the exit test; break leaves the lock's scope and the thread
\* function returns.
LogWorkerCheck ==
    /\ lwpc = "lw_check"
    /\ IF LogExitTest
       THEN /\ log_mutex' = log_mutex \ {LogWorker}
            /\ lwpc' = "lw_exited"
       ELSE /\ lwpc' = "lw_drain"
            /\ UNCHANGED log_mutex
    /\ UNCHANGED <<m_logQueue, log_cv, logger_running, logMain, logCount,
                   logWritten, pendingAtDtor>>
    /\ UNCHANGED outsideLogger

\* processLogs: while (!m_logQueue.empty()): write the front message and
\* pop it, with the lock held; when the queue is empty the turn of the outer
\* loop ends, which releases the lock.
LogWorkerDrain ==
    /\ lwpc = "lw_drain"
    /\ IF m_logQueue # <<>>
       THEN /\ logWritten' = Append(logWritten, Head(m_logQueue))
            /\ m_logQueue' = Tail(m_logQueue)
            /\ lwpc' = "lw_sleep"
            /\ UNCHANGED log_mutex
       ELSE /\ log_mutex' = log_mutex \ {LogWorker}
            /\ lwpc' = "lw_lock"
            /\ UNCHANGED <<m_logQueue, logWritten>>
    /\ UNCHANGED <<log_cv, logger_running, logMain, logCount, pendingAtDtor>>
    /\ UNCHANGED outsideLogger

\* processLogs: the 2000 ms sleep that simulates a slow write ends; the
\* lock is still held.
LogWorkerSleep ==
    /\ lwpc = "lw_sleep"
    /\ lwpc' = "lw_drain"
    /\ UNCHANGED <<m_logQueue, log_mutex, log_cv, logger_running, logMain,
                   logCount, logWritten, pendingAtDtor>>
    /\ UNCHANGED outsideLogger

LogMainStep ==
    \/ LogBegin
    \/ LogLock
    \/ LogPush
    \/ LogNotify
    \/ WaitBegin
    \/ WaitLock
    \/ WaitTest
    \/ WaitSleep
    \/ LoggerDtorBegin
    \/ LoggerDtorLock
    \/ LoggerDtorClear
    \/ LoggerDtorNotify
    \/ LoggerDtorJoin

LogWorkerStep ==
    \/ LogWorkerLock
    \/ LogWorkerWait
    \/ LogWorkerReacquire
    \/ LogWorkerCheck
    \/ LogWorkerDrain
    \/ LogWorkerSleep

NextLogger ==
    \/ LogMainStep
    \/ LogWorkerStep
    \/ LogWorkerSpuriousWakeup

\* The Logger example alone: no ThreadPool is at work.
InitLogger == Init /\ threadCount = 0

SpecLogger == InitLogger /\ [][NextLogger]_vars

\* Fair scheduling: each thread that can take a step again and again
\* eventually takes one.  Nothing forces a spurious wakeup.
LoggerFairness ==
    /\ SF_vars(LogMainStep)
    /\ SF_vars(LogWorkerStep)

FairSpecLogger == SpecLogger /\ LoggerFairness

\* The worker is writing queued messages: it is in the inner loop of
\* processLogs.
Writing == lwpc \in {"lw_drain", "lw_sleep"}

\* C25: a caller of logMessage never waits for the mutex while the worker is
\* in the middle of writing queued messages.
C25_LogMessageNeverWaits ==
    ~(logMain = "log_lock" /\ Writing /\ LogWorker \in log_mutex)

\* The destructor has started or returned.
InLoggerDtor ==
    logMain \in {"ldtor_lock", "ldtor_clear", "ldtor_notify", "ldtor_join",
                 "returned"}

\* C26: when the destructor has returned, the messages logged have been
\* written once each, in the order logged, and none is left in the queue; and
\* a destructor that has started eventually returns.
C26_DtorWritesAll ==
    /\ [](logMain = "returned" =>
            /\ logWritten = [k \in 1..logCount |-> k]
            /\ m_logQueue = <<>>
            /\ lwpc = "lw_exited")
    /\ InLoggerDtor ~> (logMain = "returned")

\* The destructor has returned, and it had started with two or more
\* messages still in the queue.
C26_Witness ==
    /\ logMain = "returned"
    /\ pendingAtDtor >= 2
    /\ logCount = MaxLogs

====
